---- MODULE Spec2Model ----
(***************************************************************************)
(* Model of src/tools/vector_db_tool.py: the SQLite-backed document store  *)
(* (class VectorDB) driven through its command line (main).  Every caller  *)
(* is one process running main(); callers share one database file.  A      *)
(* step of the model is one statement of the code that touches the shared  *)
(* file (SELECT, INSERT, commit) or one local computation between them.    *)
(***************************************************************************)
EXTENDS Integers, Sequences, FiniteSets, TLC

\* Total number of invocations of main() started in one behaviour.
MaxCalls == 3

\* The concurrent callers (separate processes sharing the database file).
Procs == {"p1", "p2"}

\* Python's None in a slot that otherwise holds a str.
None == "<None>"

\* Python's None / a dict in the slot of write()'s metadata parameter.
PyNone == [t |-> "None"]
PyDict(items) == [t |-> "dict", items |-> items]

\* --collection values; argparse only requires the option to be present,
\* so the empty string is accepted.
Names == {"", "c1"}

\* --text / --query values.
Texts == {"", "a", "b", "z"}

\* --metadata values: absent, or a JSON text.
MetadataArgs == {None, "{}", "{\"k\": 1}"}

\* --n-results values (type=int, default 5).
NResults == {-1, 0, 1, 5}

\* The command lines of a write: every collection and text without
\* metadata, and every metadata value with the text "a".
WriteInputs ==
    {i \in [collection : Names, text : Texts, metadata : MetadataArgs] :
        i.metadata = None \/ i.text = "a"}

\* The command lines of a query: every collection and n_results with the
\* query "a", and the other queries with the default n_results.
QueryTexts == {"", "a", "z"}
QueryInputs ==
    {i \in [collection : Names, query : QueryTexts, n_results : NResults] :
        i.query = "a" \/ i.n_results = 5}

VARIABLES
    collections,    \* committed rows of table collections: set of [id, name]
    documents,      \* committed rows of table documents, in rowid order
    txn,            \* the open write transaction of the file, if any
    pc,             \* pc[p]: where caller p stands in main/write/query
    args,           \* args[p]: the parsed command line of p's invocation
    embedding,      \* embedding[p]: write's embedding / query's query_embedding
    metadata_str,   \* metadata_str[p]: write's local metadata_str
    collection_id,  \* collection_id[p]: the id resolved for args.collection
    open,           \* open[p]: connections p has opened and not closed
    result,         \* result[p]: fetchone() of the collection lookup; the row
                    \* (id,) is <<id>> and None is << >>
    envelope,       \* envelope[p]: what the invocation printed / how it ended
    calls           \* invocations started so far

vars == <<collections, documents, txn, pc, args, embedding, metadata_str,
          collection_id, result, open, envelope, calls>>

----------------------------------------------------------------------------
\* Python helpers

\* bool(x) for a str-or-None value.
TruthyStr(s) == s # None /\ s # ""

\* bool(x) for a dict-or-None value.
TruthyDict(m) == m.t = "dict" /\ m.items # {}

\* json.loads on the JSON texts of MetadataArgs.
Loads(s) ==
    CASE s = "{}" -> PyDict({})
      [] s = "{\"k\": 1}" -> PyDict({<<"k", 1>>})

\* json.dumps on the dicts Loads produces.
Dumps(m) ==
    CASE m.items = {} -> "{}"
      [] m.items = {<<"k", 1>>} -> "{\"k\": 1}"

\* seq[:n] of Python, n of either sign.
Slice(seq, n) ==
    IF n >= 0
    THEN SubSeq(seq, 1, IF n < Len(seq) THEN n ELSE Len(seq))
    ELSE SubSeq(seq, 1, IF Len(seq) + n > 0 THEN Len(seq) + n ELSE 0)

\* seq[::-1]
Reversed(seq) == [i \in 1..Len(seq) |-> seq[Len(seq) + 1 - i]]

----------------------------------------------------------------------------
\* The embedding provider: self.model.encode([text])[0].  It is an opaque
\* deterministic function of the text; components are integers standing for
\* float32 values.
Encode(text) ==
    CASE text = "a" -> <<5, 0>>
      [] text = "b" -> <<3, 4>>
      [] text = "z" -> <<0, 0>>
      [] OTHER      -> <<0, 5>>

\* One float32 component as 4 little-endian bytes (two's complement of the
\* integer that stands for it; the sign lives in the top bit of byte 4).
ComponentBytes(x) ==
    LET y == IF x >= 0 THEN x ELSE (x + 2147483647) + 1
        top == IF x >= 0 THEN 0 ELSE 128
    IN  <<y % 256, (y \div 256) % 256, (y \div 65536) % 256,
          (y \div 16777216) + top>>

\* ndarray.tobytes()
RECURSIVE ToBytes(_)
ToBytes(v) ==
    IF v = << >> THEN << >> ELSE ComponentBytes(Head(v)) \o ToBytes(Tail(v))

ComponentValue(b) ==
    LET low == b[1] + 256 * b[2] + 65536 * b[3] + 16777216 * (b[4] % 128)
    IN  IF b[4] >= 128 THEN (low - 2147483647) - 1 ELSE low

\* np.frombuffer(bytes, dtype=np.float32)
RECURSIVE FromBuffer(_)
FromBuffer(b) ==
    IF Len(b) < 4 THEN << >>
    ELSE <<ComponentValue(SubSeq(b, 1, 4))>> \o FromBuffer(SubSeq(b, 5, Len(b)))

----------------------------------------------------------------------------
\* Scoring (query, lines 195-197) and ranking (line 208)

\* np.dot
RECURSIVE Dot(_, _)
Dot(u, v) ==
    IF u = << >> \/ v = << >> THEN 0
    ELSE Head(u) * Head(v) + Dot(Tail(u), Tail(v))

\* np.linalg.norm: the square root of Dot(v, v); the provider's vectors have
\* integral norms.
Norm(v) == CHOOSE n \in 0..Dot(v, v) : n * n = Dot(v, v)

\* A float is kept as the quotient num/den that produced it; a zero
\* divisor (0.0/0.0 on numpy scalars) is nan.
IsNaN(x) == x.den = 0
FloatEq(x, y) == ~IsNaN(x) /\ ~IsNaN(y) /\ x.num * y.den = y.num * x.den
FloatLess(x, y) == ~IsNaN(x) /\ ~IsNaN(y) /\ x.num * y.den < y.num * x.den

\* np.dot(q, e) / (np.linalg.norm(q) * np.linalg.norm(e))
Similarity(q, e) == [num |-> Dot(q, e), den |-> Norm(q) * Norm(e)]

\* The order np.argsort sorts by: ascending, nan after every number.
SortsBefore(x, y) == ~IsNaN(x) /\ (IsNaN(y) \/ FloatLess(x, y))

IndexOrders(n) ==
    {f \in [1..n -> 1..n] : \A i, j \in 1..n : i # j => f[i] # f[j]}

\* np.argsort(sims) with the default kind ("quicksort", not stable): any
\* index order that is ascending; the order of equal elements is not
\* specified.
ArgSorts(sims) ==
    {f \in IndexOrders(Len(sims)) :
        \A i, j \in 1..Len(sims) :
            i < j => ~SortsBefore(sims[f[j]], sims[f[i]])}

----------------------------------------------------------------------------
\* The store

NoTxn == [owner |-> None]

\* lastrowid of an INSERT into a table with INTEGER PRIMARY KEY: one more
\* than the largest rowid in the table (1 for an empty table).
RECURSIVE MaxId(_)
MaxId(ids) ==
    IF ids = {} THEN 0
    ELSE LET x == CHOOSE y \in ids : TRUE
             m == MaxId(ids \ {x})
         IN  IF x > m THEN x ELSE m

NextCollectionId == MaxId({c.id : c \in collections}) + 1
\* The id of the last row handed out again.
ReusedDocumentId == MaxId({documents[i].id : i \in 1..Len(documents)})

NextDocumentId == MaxId({documents[i].id : i \in 1..Len(documents)}) + 1

\* The lookup without its WHERE clause.
SelectAnyCollection(name) == {c.id : c \in collections}

\* SELECT id FROM collections WHERE name = ?  followed by fetchone(): the
\* matching rows (the caller takes one of them, None when there is none).
SelectCollection(name) == {c.id : c \in {r \in collections : r.name = name}}

\* The table created without the UNIQUE constraint: no INSERT is refused.
NoUniqueConstraint(name) == FALSE

\* The UNIQUE constraint of collections.name (line 66): an INSERT of a name
\* some row already carries is refused.
UniqueViolation(name) == \E c \in collections : c.name = name

\* The scan without its WHERE clause.
SelectAllDocuments(docs, cid) == docs

\* The scan reading the row of a transaction that is still open (a dirty
\* read).
RECURSIVE SelectUncommitted(_, _)
SelectUncommitted(docs, cid) ==
    IF docs = << >>
    THEN IF txn.owner # None /\ txn.table = "documents"
              /\ txn.row.collection_id = cid
         THEN <<txn.row>> ELSE << >>
    ELSE (IF Head(docs).collection_id = cid THEN <<Head(docs)>> ELSE << >>)
         \o SelectUncommitted(Tail(docs), cid)

\* SELECT id, text, metadata, embedding FROM documents WHERE collection_id = ?
RECURSIVE SelectDocuments(_, _)
SelectDocuments(docs, cid) ==
    IF docs = << >> THEN << >>
    ELSE (IF Head(docs).collection_id = cid THEN <<Head(docs)>> ELSE << >>)
         \o SelectDocuments(Tail(docs), cid)

\* The write lock of the file: an INSERT needs it and it is held from the
\* INSERT of a transaction to its commit.
LockedByOther(p) == txn.owner # None /\ txn.owner # p

NoResult == [status |-> "none"]
NoArgs == [action |-> "none"]

\* An exception no except clause catches: the interpreter ends the process
\* with exit code 1 and no envelope.
Uncaught(msg) == [status |-> "exit", code |-> 1]

Success(id) == [status |-> "success", id |-> id]
SuccessResults(rs) == [status |-> "success", results |-> rs]
Error(msg) == [status |-> "error", message |-> msg]
Exit(code) == [status |-> "exit", code |-> code]

\* The store after VectorDB._init_db on a new file: both tables exist and
\* are empty (on every later construction CREATE TABLE IF NOT EXISTS
\* changes nothing).
Init ==
    /\ collections = {}
    /\ documents = << >>
    /\ txn = NoTxn
    /\ pc = [p \in Procs |-> "idle"]
    /\ args = [p \in Procs |-> NoArgs]
    /\ embedding = [p \in Procs |-> << >>]
    /\ metadata_str = [p \in Procs |-> None]
    /\ collection_id = [p \in Procs |-> 0]
    /\ result = [p \in Procs |-> << >>]
    /\ open = [p \in Procs |-> 0]
    /\ envelope = [p \in Procs |-> NoResult]
    /\ calls = 0

----------------------------------------------------------------------------
\* main(), lines 227-256

\* The metadata argument main passes to db.write (line 246).
Metadata(p) ==
    IF TruthyStr(args[p].metadata) THEN Loads(args[p].metadata) ELSE PyNone

\* main with action == 'write': --text is checked, --metadata is parsed, and
\* db.write is entered.
MainWrite(p) ==
    /\ pc[p] = "idle"
    /\ calls < MaxCalls
    /\ \E i \in WriteInputs :
        /\ calls' = calls + 1
        /\ IF ~TruthyStr(i.text)
           THEN /\ pc' = [pc EXCEPT ![p] = "done"]
                /\ envelope' = [envelope EXCEPT ![p] = Exit(1)]
           ELSE /\ pc' = [pc EXCEPT ![p] = "w_encode"]
                /\ UNCHANGED envelope
        /\ args' = [args EXCEPT ![p] =
               [action |-> "write", collection |-> i.collection,
                text |-> i.text, metadata |-> i.metadata]]
    /\ UNCHANGED <<collections, documents, txn, embedding, metadata_str,
                   collection_id, result, open>>

\* main with action == 'query': --query is checked and db.query is entered.
MainQuery(p) ==
    /\ pc[p] = "idle"
    /\ calls < MaxCalls
    /\ \E i \in QueryInputs :
        /\ calls' = calls + 1
        /\ args' = [args EXCEPT ![p] =
               [action |-> "query", collection |-> i.collection,
                query |-> i.query, n_results |-> i.n_results]]
        /\ IF ~TruthyStr(i.query)
           THEN /\ pc' = [pc EXCEPT ![p] = "done"]
                /\ envelope' = [envelope EXCEPT ![p] = Exit(1)]
           ELSE /\ pc' = [pc EXCEPT ![p] = "q_encode"]
                /\ UNCHANGED envelope
    /\ UNCHANGED <<collections, documents, txn, embedding, metadata_str,
                   collection_id, result, open>>

\* The process ends; its locals and whatever connection it left open go
\* with it.
ProcessExit(p) ==
    /\ pc[p] = "done"
    /\ pc' = [pc EXCEPT ![p] = "idle"]
    /\ args' = [args EXCEPT ![p] = NoArgs]
    /\ embedding' = [embedding EXCEPT ![p] = << >>]
    /\ metadata_str' = [metadata_str EXCEPT ![p] = None]
    /\ collection_id' = [collection_id EXCEPT ![p] = 0]
    /\ result' = [result EXCEPT ![p] = << >>]
    /\ open' = [open EXCEPT ![p] = 0]
    /\ envelope' = [envelope EXCEPT ![p] = NoResult]
    /\ UNCHANGED <<collections, documents, txn, calls>>

----------------------------------------------------------------------------
\* VectorDB.write, lines 115-156, with _get_or_create_collection, lines 89-113

\* line 121
WEncode(p) ==
    /\ pc[p] = "w_encode"
    /\ embedding' = [embedding EXCEPT ![p] = Encode(args[p].text)]
    /\ pc' = [pc EXCEPT ![p] = "w_dumps"]
    /\ UNCHANGED <<collections, documents, txn, args, metadata_str,
                   collection_id, result, open, envelope, calls>>

\* line 121 when the provider raises: the exception goes to lines 150-156.
WEncodeFail(p) ==
    /\ pc[p] = "w_encode"
    /\ envelope' = [envelope EXCEPT ![p] = Error("encode failed")]
    /\ pc' = [pc EXCEPT ![p] = "done"]
    /\ UNCHANGED <<collections, documents, txn, args, embedding, metadata_str,
                   collection_id, result, open, calls>>

\* line 125
MetadataStr(metadata) ==
    IF TruthyDict(metadata) THEN Dumps(metadata) ELSE None

\* The serialization left for later: the lookup is entered with
\* metadata_str not yet computed.
WDumpsSkipped(p) ==
    /\ pc[p] = "w_dumps"
    /\ pc' = [pc EXCEPT ![p] = "g_select"]
    /\ UNCHANGED <<collections, documents, txn, args, embedding, metadata_str,
                   collection_id, result, open, envelope, calls>>

WDumps(p) ==
    /\ pc[p] = "w_dumps"
    /\ metadata_str' = [metadata_str EXCEPT ![p] = MetadataStr(Metadata(p))]
    /\ pc' = [pc EXCEPT ![p] = "g_select"]
    /\ UNCHANGED <<collections, documents, txn, args, embedding,
                   collection_id, result, open, envelope, calls>>

\* fetchone() of the lookup: the first matching row (id,), or None.
FetchOne(ids) ==
    IF ids = {} THEN << >> ELSE <<CHOOSE x \in ids : \A y \in ids : x <= y>>

\* lines 92-101: connect and look the name up.  When the row is found the
\* function commits nothing, closes and returns (lines 107-108, 113).
GSelect(p) ==
    /\ pc[p] = "g_select"
    /\ LET row == FetchOne(SelectCollection(args[p].collection))
       IN  /\ result' = [result EXCEPT ![p] = row]
           /\ IF row # << >>
              THEN /\ collection_id' = [collection_id EXCEPT ![p] = row[1]]
                   /\ pc' = [pc EXCEPT ![p] = "w_insert"]
                   /\ UNCHANGED open
              ELSE /\ pc' = [pc EXCEPT ![p] = "g_insert"]
                   /\ open' = [open EXCEPT ![p] = @ + 1]
                   /\ UNCHANGED collection_id
    /\ UNCHANGED <<collections, documents, txn, args, embedding,
                   metadata_str, envelope, calls>>

\* lines 103-104: INSERT INTO collections.  A refused INSERT raises; the
\* finally clause closes the connection (line 113) and write's except
\* clause turns the exception into an error envelope (lines 150-156).
GInsert(p) ==
    /\ pc[p] = "g_insert"
    /\ ~LockedByOther(p)
    /\ IF UniqueViolation(args[p].collection)
       THEN /\ envelope' = [envelope EXCEPT ![p] = Error("UNIQUE constraint failed")]
            /\ open' = [open EXCEPT ![p] = @ - 1]
            /\ pc' = [pc EXCEPT ![p] = "done"]
            /\ UNCHANGED <<txn, collection_id>>
       ELSE /\ txn' = [owner |-> p, table |-> "collections",
                       row |-> [id |-> NextCollectionId,
                                name |-> args[p].collection]]
            /\ collection_id' = [collection_id EXCEPT ![p] = NextCollectionId]
            /\ pc' = [pc EXCEPT ![p] = "g_commit"]
            /\ UNCHANGED <<envelope, open>>
    /\ UNCHANGED <<collections, documents, args, embedding, metadata_str,
                   result, calls>>

\* line 103 while another connection holds the write lock and the busy
\* timeout of sqlite3.connect runs out: OperationalError.
GInsertBusy(p) ==
    /\ pc[p] = "g_insert"
    /\ LockedByOther(p)
    /\ envelope' = [envelope EXCEPT ![p] = Error("database is locked")]
    /\ open' = [open EXCEPT ![p] = @ - 1]
    /\ pc' = [pc EXCEPT ![p] = "done"]
    /\ UNCHANGED <<collections, documents, txn, args, embedding,
                   metadata_str, collection_id, result, calls>>

\* The connection closed without the commit: the inserted row is rolled
\* back.
GCommitLost(p) ==
    /\ pc[p] = "g_commit"
    /\ txn.owner = p
    /\ txn' = NoTxn
    /\ open' = [open EXCEPT ![p] = @ - 1]
    /\ pc' = [pc EXCEPT ![p] = "w_insert"]
    /\ UNCHANGED <<collections, documents, args, embedding, metadata_str,
                   collection_id, result, envelope, calls>>

\* lines 107-108, 113: commit, return the id, close.
GCommit(p) ==
    /\ pc[p] = "g_commit"
    /\ txn.owner = p
    /\ collections' = collections \cup {txn.row}
    /\ txn' = NoTxn
    /\ open' = [open EXCEPT ![p] = @ - 1]
    /\ pc' = [pc EXCEPT ![p] = "w_insert"]
    /\ UNCHANGED <<documents, args, embedding, metadata_str, collection_id,
                   result, envelope, calls>>

\* The row of lines 134-137.
DocumentRow(p) ==
    [id |-> NextDocumentId,
     collection_id |-> collection_id[p],
     text |-> args[p].text,
     metadata |-> metadata_str[p],
     embedding |-> ToBytes(embedding[p])]

\* lines 131-139: connect, INSERT INTO documents.
WInsert(p) ==
    /\ pc[p] = "w_insert"
    /\ ~LockedByOther(p)
    /\ txn' = [owner |-> p, table |-> "documents", row |-> DocumentRow(p)]
    /\ open' = [open EXCEPT ![p] = @ + 1]
    /\ pc' = [pc EXCEPT ![p] = "w_commit"]
    /\ UNCHANGED <<collections, documents, args, embedding, metadata_str,
                   collection_id, result, envelope, calls>>

\* The failed document INSERT undoing the collection row the call created.
WInsertBusyRollback(p) ==
    /\ pc[p] = "w_insert"
    /\ LockedByOther(p)
    /\ collections' = {c \in collections :
                          result[p] # << >> \/ c.id # collection_id[p]}
    /\ open' = [open EXCEPT ![p] = @ + 1]
    /\ envelope' = [envelope EXCEPT ![p] = Error("database is locked")]
    /\ pc' = [pc EXCEPT ![p] = "done"]
    /\ UNCHANGED <<documents, txn, args, embedding,
                   metadata_str, collection_id, result, calls>>

\* line 134 while another connection holds the write lock and the busy
\* timeout runs out: the exception goes to lines 150-156; the connection of
\* line 131 is not closed on this path.
WInsertBusy(p) ==
    /\ pc[p] = "w_insert"
    /\ LockedByOther(p)
    /\ open' = [open EXCEPT ![p] = @ + 1]
    /\ envelope' = [envelope EXCEPT ![p] = Error("database is locked")]
    /\ pc' = [pc EXCEPT ![p] = "done"]
    /\ UNCHANGED <<collections, documents, txn, args, embedding,
                   metadata_str, collection_id, result, calls>>

\* lines 140-148: commit, close, the success envelope with doc_id.
WCommit(p) ==
    /\ pc[p] = "w_commit"
    /\ txn.owner = p
    /\ documents' = Append(documents, txn.row)
    /\ envelope' = [envelope EXCEPT ![p] = Success(txn.row.id)]
    /\ txn' = NoTxn
    /\ open' = [open EXCEPT ![p] = @ - 1]
    /\ pc' = [pc EXCEPT ![p] = "done"]
    /\ UNCHANGED <<collections, args, embedding, metadata_str, collection_id,
                   result, calls>>

----------------------------------------------------------------------------
\* VectorDB.query, lines 158-225

\* line 164
QEncode(p) ==
    /\ pc[p] = "q_encode"
    /\ embedding' = [embedding EXCEPT ![p] = Encode(args[p].query)]
    /\ pc' = [pc EXCEPT ![p] = "q_select"]
    /\ UNCHANGED <<collections, documents, txn, args, metadata_str,
                   collection_id, result, open, envelope, calls>>

\* line 164 when the provider raises: the exception goes to lines 219-225.
QEncodeFail(p) ==
    /\ pc[p] = "q_encode"
    /\ envelope' = [envelope EXCEPT ![p] = Error("encode failed")]
    /\ pc' = [pc EXCEPT ![p] = "done"]
    /\ UNCHANGED <<collections, documents, txn, args, embedding, metadata_str,
                   collection_id, result, open, calls>>

\* The lookup's miss answered like an empty collection.
NotFoundAsEmpty(name) == SuccessResults(<< >>)

\* lines 173-179: the envelope returned when the lookup finds no row.
NotFound(name) == Error("Collection not found")

\* lines 168-181: connect, look the collection up; return the error
\* envelope when there is no row (the connection stays open on that path).
QSelect(p) ==
    /\ pc[p] = "q_select"
    /\ open' = [open EXCEPT ![p] = @ + 1]
    /\ LET row == FetchOne(SelectCollection(args[p].collection))
       IN  /\ result' = [result EXCEPT ![p] = row]
           /\ IF row = << >>
              THEN /\ envelope' = [envelope EXCEPT ![p] =
                          NotFound(args[p].collection)]
                   /\ pc' = [pc EXCEPT ![p] = "done"]
                   /\ UNCHANGED collection_id
              ELSE /\ collection_id' = [collection_id EXCEPT ![p] = row[1]]
                   /\ pc' = [pc EXCEPT ![p] = "q_scan"]
                   /\ UNCHANGED envelope
    /\ UNCHANGED <<collections, documents, txn, args, embedding,
                   metadata_str, calls>>

\* lines 193-205: the list `documents` built from the fetched rows.
ScoredDocuments(rows, q) ==
    [i \in 1..Len(rows) |->
        [id |-> rows[i].id,
         text |-> rows[i].text,
         metadata |-> IF TruthyStr(rows[i].metadata)
                      THEN Loads(rows[i].metadata) ELSE PyNone,
         similarity |-> Similarity(q, FromBuffer(rows[i].embedding))]]

\* lines 208-209: argsort, reverse, cut to n_results, pick.
TopResults(docs, order, n) ==
    LET sorted_indices == Slice(Reversed(order), n)
    IN  [k \in 1..Len(sorted_indices) |-> docs[sorted_indices[k]]]

\* lines 184-217: fetch the collection's rows, score, rank, close, return.
QScan(p) ==
    /\ pc[p] = "q_scan"
    /\ LET rows == SelectDocuments(documents, collection_id[p])
           docs == ScoredDocuments(rows, embedding[p])
           similarities == [i \in 1..Len(docs) |-> docs[i].similarity]
       IN  \E order \in ArgSorts(similarities) :
               envelope' = [envelope EXCEPT ![p] =
                   SuccessResults(TopResults(docs, order, args[p].n_results))]
    /\ open' = [open EXCEPT ![p] = @ - 1]
    /\ pc' = [pc EXCEPT ![p] = "done"]
    /\ UNCHANGED <<collections, documents, txn, args, embedding,
                   metadata_str, collection_id, result, calls>>

----------------------------------------------------------------------------
Next ==
    \E p \in Procs :
        \/ MainWrite(p)
        \/ MainQuery(p)
        \/ ProcessExit(p)
        \/ WEncode(p)
        \/ WEncodeFail(p)
        \/ WDumps(p)
        \/ GSelect(p)
        \/ GInsert(p)
        \/ GInsertBusy(p)
        \/ GCommit(p)
        \/ WInsert(p)
        \/ WInsertBusy(p)
        \/ WCommit(p)
        \/ QEncode(p)
        \/ QEncodeFail(p)
        \/ QSelect(p)
        \/ QScan(p)

Spec == Init /\ [][Next]_vars

----------------------------------------------------------------------------
\* Properties

UniqueError == Error("UNIQUE constraint failed")

\* The rows of collections, the one an open transaction has inserted and not
\* yet committed included.
AllCollectionRows ==
    collections \cup
    (IF txn.owner # None /\ txn.table = "collections" THEN {txn.row} ELSE {})

RowsNamed(name) == {r \in AllCollectionRows : r.name = name}

\* Caller p has returned from query with a success envelope.
QueryOk(p) ==
    /\ pc[p] = "done"
    /\ args[p].action = "query"
    /\ envelope[p].status = "success"

\* Caller p has returned from write with a success envelope.
WriteOk(p) ==
    /\ pc[p] = "done"
    /\ args[p].action = "write"
    /\ envelope[p].status = "success"

\* The step in which caller p runs the scan of query and returns.
ScanStep(p) == pc[p] = "q_scan" /\ pc'[p] = "done"

\* The documents (positions in the table) of the collections named name.
DocumentsOf(name) ==
    {i \in 1..Len(documents) :
        \E c \in collections : c.name = name /\ documents[i].collection_id = c.id}

\* C1: in every reachable state no two rows of the collections table,
\* committed or inserted by the open transaction, carry the same name.
C1_UniqueNames ==
    \A r1, r2 \in AllCollectionRows : r1.name = r2.name => r1 = r2

\* C1 witness: two collections exist and a caller's INSERT of a name that
\* was already there has been refused.
C1_Witness ==
    /\ Cardinality(collections) = 2
    /\ \E p \in Procs : pc[p] = "done" /\ envelope[p] = UniqueError

\* Caller p, inside a write, has looked its collection up, found no row, and
\* has run the INSERT of line 103 (which was accepted or refused).
InsertAttempted(p) ==
    /\ args[p].action = "write"
    /\ pc[p] \in {"g_commit", "w_insert", "w_commit", "done"}
    /\ envelope[p].status # "exit"
    /\ result[p] = << >>
    /\ (collection_id[p] # 0 \/ envelope[p] = UniqueError)

BothAttempted(p, q) ==
    /\ p # q
    /\ InsertAttempted(p)
    /\ InsertAttempted(q)
    /\ args[p].collection = args[q].collection

\* C2 as claimed: when two callers have each observed "not found" for the
\* same name and each run the INSERT, two distinct rows carry that name.
C2_TwoRowsSameName ==
    \A p, q \in Procs :
        BothAttempted(p, q) => Cardinality(RowsNamed(args[p].collection)) = 2

\* C2 as amended: two callers may each observe "not found" for the same
\* name and each run the INSERT, but then exactly one row carries that name
\* and exactly one of the two INSERTs was refused by the UNIQUE constraint.
C2_OneRowOneRefused ==
    \A p, q \in Procs :
        BothAttempted(p, q) =>
            /\ Cardinality(RowsNamed(args[p].collection)) = 1
            /\ (envelope[p] = UniqueError) # (envelope[q] = UniqueError)

\* C2 witness: both callers observed "not found" for one name and both ran
\* the INSERT.
C2_Witness == \E p, q \in Procs : BothAttempted(p, q)

\* C3: a query whose lookup finds no collection row of that name returns an
\* error envelope, whatever the query text and n_results are.
C3_UnknownCollectionIsError ==
    [][\A p \in Procs :
        (/\ pc[p] = "q_select"
         /\ pc'[p] # "q_select"
         /\ ~\E c \in collections : c.name = args[p].collection)
        => (pc'[p] = "done" /\ envelope'[p].status = "error")]_vars

\* C3 witness: a query of a name without a row has returned its error
\* envelope while another collection exists.
C3_Witness ==
    \E p \in Procs :
        /\ pc[p] = "done"
        /\ args[p].action = "query"
        /\ envelope[p].status = "error"
        /\ collections # {}
        /\ RowsNamed(args[p].collection) = {}

\* C4 as claimed: the results of a successful query are in descending order
\* of similarity and two results of equal similarity are in the order of
\* their insertion (ascending id).
C4_DescendingStable ==
    \A p \in Procs :
        QueryOk(p) =>
            LET rs == envelope[p].results
            IN  \A i, j \in 1..Len(rs) :
                    i < j =>
                        /\ ~FloatLess(rs[i].similarity, rs[j].similarity)
                        /\ (FloatEq(rs[i].similarity, rs[j].similarity)
                                => rs[i].id < rs[j].id)

\* C5 as claimed: a query with text T and n_results >= 1 of a collection
\* whose only document was written with text T returns that document first,
\* with the maximal similarity 1.0.
C5_RoundTripTop ==
    [][\A p \in Procs :
        ScanStep(p) =>
            \A i \in DocumentsOf(args[p].collection) :
                (/\ DocumentsOf(args[p].collection) = {i}
                 /\ documents[i].text = args[p].query
                 /\ args[p].n_results >= 1)
                => LET rs == envelope'[p].results
                   IN  /\ Len(rs) >= 1
                       /\ rs[1].id = documents[i].id
                       /\ ~IsNaN(rs[1].similarity)
                       /\ rs[1].similarity.num = rs[1].similarity.den]_vars

\* C5, the part the code keeps: the same round trip for a text whose
\* encoding has a non-zero norm.
C5_RoundTripNonZeroNorm ==
    [][\A p \in Procs :
        ScanStep(p) =>
            \A i \in DocumentsOf(args[p].collection) :
                (/\ DocumentsOf(args[p].collection) = {i}
                 /\ documents[i].text = args[p].query
                 /\ Norm(Encode(args[p].query)) # 0
                 /\ args[p].n_results >= 1)
                => LET rs == envelope'[p].results
                   IN  /\ Len(rs) >= 1
                       /\ rs[1].id = documents[i].id
                       /\ ~IsNaN(rs[1].similarity)
                       /\ rs[1].similarity.num = rs[1].similarity.den]_vars

\* C6 as claimed: a query that returns a document reports the metadata
\* mapping that was passed to the write of that document (the empty mapping
\* included), and no metadata when none was passed.
C6_MetadataRoundTrip ==
    \A p, q \in Procs :
        (WriteOk(p) /\ QueryOk(q)) =>
            \A k \in 1..Len(envelope[q].results) :
                envelope[q].results[k].id = envelope[p].id
                    => envelope[q].results[k].metadata = Metadata(p)

\* C7 as claimed: a successful query with n_results <= 0 has an empty
\* result list, and a query of an existing collection with n_results <= 0
\* succeeds.
C7_NonPositiveTopKIsEmpty ==
    \A p \in Procs :
        (pc[p] = "done" /\ args[p].action = "query"
            /\ envelope[p].status # "exit" /\ args[p].n_results <= 0
            /\ result[p] # << >>)
        => (envelope[p].status = "success" /\ envelope[p].results = << >>)

\* C8: a query with n_results >= the number of documents of the collection
\* returns exactly the documents of that collection, each once, and none of
\* another collection.
C8_AllOfCollection ==
    [][\A p \in Procs :
        (ScanStep(p)
            /\ args[p].n_results >= Cardinality(DocumentsOf(args[p].collection)))
        => LET rs == envelope'[p].results
               member == DocumentsOf(args[p].collection)
           IN  /\ Len(rs) = Cardinality(member)
               /\ {<<rs[k].id, rs[k].text>> : k \in 1..Len(rs)}
                    = {<<documents[i].id, documents[i].text>> : i \in member}]_vars

\* C8 witness: a query has returned every document of its collection while
\* a document of another collection is stored.
C8_Witness ==
    \E p \in Procs :
        /\ QueryOk(p)
        /\ Len(envelope[p].results) >= 1
        /\ Len(envelope[p].results)
             = Cardinality(DocumentsOf(args[p].collection))
        /\ Cardinality(DocumentsOf(args[p].collection)) < Len(documents)

\* C9 as claimed: when the query vector or the document's vector has zero
\* norm, the returned similarity is the number 0.0 (not nan).
C9_ZeroNormScoresZero ==
    \A p \in Procs :
        QueryOk(p) =>
            \A k \in 1..Len(envelope[p].results) :
                LET r == envelope[p].results[k]
                IN  (Norm(Encode(args[p].query)) = 0 \/ Norm(Encode(r.text)) = 0)
                    => (~IsNaN(r.similarity) /\ r.similarity.num = 0)

\* C10 as claimed: a write whose text or collection name is empty inserts
\* no row and does not end with a success envelope.
C10_EmptyInputRejected ==
    \A p \in Procs :
        (args[p].action = "write"
            /\ (args[p].text = "" \/ args[p].collection = ""))
        => /\ txn.owner # p
           /\ (pc[p] = "done" => envelope[p].status # "success")

LockedError == Error("database is locked")

\* The place of a step in its operation; "done" is after every step.
StepOrder(at) ==
    CASE at \in {"w_encode", "q_encode"} -> 1
      [] at \in {"w_dumps", "q_select"}  -> 2
      [] at \in {"g_select", "q_scan"}   -> 3
      [] at = "g_insert"                 -> 4
      [] at = "g_commit"                 -> 5
      [] at = "w_insert"                 -> 6
      [] at = "w_commit"                 -> 7
      [] OTHER                           -> 8

InOperation(p) == pc[p] \notin {"idle", "done"}

\* C11: every failure inside write or query (the provider raising, the
\* INSERT refused or locked out) ends the call at once with an error
\* envelope: the call never ends without an envelope, the failed statement
\* is not run again (no step is entered twice), and the failing step
\* changes nothing in the store.
C11_FailuresBecomeEnvelopes ==
    [][\A p \in Procs :
        /\ (InOperation(p) /\ pc'[p] # pc[p])
            => StepOrder(pc'[p]) > StepOrder(pc[p])
        /\ (InOperation(p) /\ pc'[p] = "done")
            => envelope'[p].status \in {"success", "error"}
        /\ (pc[p] \in {"g_insert", "w_insert"} /\ LockedByOther(p)
                /\ pc'[p] # pc[p])
            => (pc'[p] = "done" /\ envelope'[p].status = "error")
        /\ (pc[p] = "g_insert" /\ pc'[p] # pc[p]
                /\ \E c \in collections : c.name = args[p].collection)
            => (pc'[p] = "done" /\ envelope'[p].status = "error")
        /\ (InOperation(p) /\ pc'[p] = "done"
                /\ envelope'[p].status # "success")
            => (collections' = collections /\ documents' = documents
                    /\ txn' = txn)]_vars

\* C11 witness: one call has ended with the error envelope of a locked
\* INSERT and another with the error envelope of a failed encoding.
C11_Witness ==
    \E p, q \in Procs :
        /\ pc[p] = "done" /\ envelope[p] = LockedError
        /\ pc[q] = "done" /\ envelope[q] = Error("encode failed")

\* Caller p's write created its collection and then failed to insert the
\* document.
CreatedThenFailed(p) ==
    /\ pc[p] = "done"
    /\ args[p].action = "write"
    /\ envelope[p].status = "error"
    /\ result[p] = << >>
    /\ collection_id[p] # 0

\* C12: when a write has created its collection and the document INSERT
\* then fails, the write ends with an error envelope and the collection row
\* stays stored; a query of a collection that holds no document returns a
\* success envelope with an empty list.
C12_OrphanCollectionStays ==
    /\ \A p \in Procs :
        CreatedThenFailed(p) =>
            [id |-> collection_id[p], name |-> args[p].collection]
                \in collections
    /\ \A q \in Procs :
        (pc[q] = "done" /\ args[q].action = "query"
            /\ envelope[q].status \in {"success", "error"}
            /\ envelope[q] # Error("encode failed")
            /\ RowsNamed(args[q].collection) # {}
            /\ DocumentsOf(args[q].collection) = {}
            /\ result[q] # << >>)
        => envelope[q] = SuccessResults(<< >>)

\* C12 witness: a write created collection c and failed on the document,
\* c holds no document, and a later query of c has returned the empty
\* success envelope.
C12_Witness ==
    \E p, q \in Procs :
        /\ CreatedThenFailed(p)
        /\ QueryOk(q)
        /\ args[q].collection = args[p].collection
        /\ collection_id[q] = collection_id[p]
        /\ DocumentsOf(args[p].collection) = {}
        /\ envelope[q].results = << >>

\* C13: every document a query returns is a committed row of the table,
\* complete: its id, text, decoded metadata and the score of its stored
\* embedding all come from that one row; the row of a write still in
\* flight is not returned.
C13_OnlyCommittedRows ==
    \A q \in Procs :
        QueryOk(q) =>
            \A k \in 1..Len(envelope[q].results) :
                LET r == envelope[q].results[k]
                IN  \E i \in 1..Len(documents) :
                        /\ documents[i].id = r.id
                        /\ documents[i].text = r.text
                        /\ documents[i].collection_id = collection_id[q]
                        /\ r.metadata =
                             (IF documents[i].metadata = None THEN PyNone
                              ELSE Loads(documents[i].metadata))
                        /\ r.similarity =
                             Similarity(Encode(args[q].query),
                                        FromBuffer(documents[i].embedding))

\* C13 witness: a query has returned a document of a collection while
\* another caller's INSERT into that collection is not yet committed.
C13_Witness ==
    \E p, q \in Procs :
        /\ QueryOk(q)
        /\ Len(envelope[q].results) >= 1
        /\ txn.owner = p
        /\ txn.table = "documents"
        /\ txn.row.collection_id = collection_id[q]

\* C14 as claimed: no call returns while a connection it opened is open.
C14_ConnectionsReleased ==
    \A p \in Procs : pc[p] = "done" => open[p] = 0

\* C15 as claimed: when write serializes the metadata, the collection has
\* already been resolved or created.
C15_ResolveBeforeSerialize ==
    [][\A p \in Procs :
        (pc[p] = "w_dumps" /\ pc'[p] # "w_dumps") => collection_id[p] # 0]_vars

\* C15 as amended: write encodes the text, then serializes the metadata,
\* then resolves or creates the collection, then appends the document: the
\* metadata is serialized while the collection is still unresolved, the
\* lookup runs with embedding and metadata_str computed, and the document
\* is inserted under a collection row that is stored.
C15_EncodeSerializeResolveAppend ==
    [][\A p \in Procs :
        /\ (pc[p] = "w_dumps" /\ pc'[p] # "w_dumps")
            => /\ embedding[p] = Encode(args[p].text)
               /\ collection_id[p] = 0
               /\ txn.owner # p
        /\ (pc[p] = "g_select" /\ pc'[p] # "g_select")
            => /\ embedding[p] = Encode(args[p].text)
               /\ (TruthyDict(Metadata(p)) => metadata_str[p] # None)
               /\ collection_id[p] = 0
        /\ (pc[p] = "w_insert" /\ pc'[p] = "w_commit")
            => /\ [id |-> collection_id[p], name |-> args[p].collection]
                    \in collections
               /\ txn'.row.metadata = metadata_str[p]
               /\ (TruthyDict(Metadata(p)) => metadata_str[p] # None)]_vars

\* C15 witness: a write stands before its collection lookup with the
\* metadata serialized and no row of its collection stored.
C15_Witness ==
    \E p \in Procs :
        /\ pc[p] = "g_select"
        /\ metadata_str[p] # None
        /\ collection_id[p] = 0
        /\ RowsNamed(args[p].collection) = {}

\* The step in which _get_or_create_collection returns to write.
GetOrCreateReturns(p) ==
    pc[p] \in {"g_select", "g_commit"} /\ pc'[p] = "w_insert"

\* Two callers that resolved the same name hold the same id.
SameNameSameId ==
    \A p, q \in Procs :
        (/\ InOperation(p) \/ pc[p] = "done"
         /\ InOperation(q) \/ pc[q] = "done"
         /\ collection_id[p] # 0
         /\ collection_id[q] # 0
         /\ args[p].collection = args[q].collection)
        => collection_id[p] = collection_id[q]

\* C16: when getOrCreate returns, the id it returns is the id of the one
\* row that carries the name; it inserted nothing when a row of that name
\* existed and exactly one row otherwise; all calls for one name return
\* the same id.
C16_GetOrCreate ==
    [][\A p \in Procs :
        /\ GetOrCreateReturns(p) =>
            /\ {r \in collections' : r.name = args[p].collection}
                 = {[id |-> collection_id'[p], name |-> args[p].collection]}
            /\ IF \E r \in collections : r.name = args[p].collection
               THEN collections' = collections
               ELSE Cardinality(collections') = Cardinality(collections) + 1
        /\ SameNameSameId']_vars

\* C16 witness: a second write of a name has returned from getOrCreate with
\* the id of the existing row, another collection being stored too.
C16_Witness ==
    \E p \in Procs :
        /\ pc[p] = "w_insert"
        /\ result[p] # << >>
        /\ Cardinality(collections) = 2
        /\ DocumentsOf(args[p].collection) # {}

\* The step in which caller p's write returns its success envelope.
WriteSucceeds(p) ==
    /\ pc[p] # "done"
    /\ pc'[p] = "done"
    /\ args[p].action = "write"
    /\ envelope'[p].status = "success"

\* C17: a successful write appends exactly one document row, whose id is
\* the id in its envelope and differs from every stored id; no step removes
\* or changes a stored document or collection, and a document is appended
\* only by a write that succeeds.
C17_AppendOnly ==
    [][/\ collections \subseteq collections'
       /\ Len(documents') >= Len(documents)
       /\ SubSeq(documents', 1, Len(documents)) = documents
       /\ \A p \in Procs :
            WriteSucceeds(p) =>
                /\ Len(documents') = Len(documents) + 1
                /\ documents'[Len(documents')].id = envelope'[p].id
                /\ documents'[Len(documents')].text = args[p].text
                /\ \A i \in 1..Len(documents) :
                       documents[i].id # envelope'[p].id
       /\ (documents' # documents => \E p \in Procs : WriteSucceeds(p))]_vars

\* C17 witness: two callers' writes have both succeeded and returned the
\* ids 1 and 2.
C17_Witness ==
    \E p, q \in Procs :
        /\ WriteOk(p) /\ envelope[p].id = 1
        /\ WriteOk(q) /\ envelope[q].id = 2
        /\ Len(documents) = 2

\* The rows of documents, the one an open transaction has inserted and not
\* yet committed included.
AllDocumentRows ==
    {documents[i] : i \in 1..Len(documents)} \cup
    (IF txn.owner # None /\ txn.table = "documents" THEN {txn.row} ELSE {})

\* C18: the collection_id of every document row, committed or inserted by
\* the open transaction, is the id of a stored collection row.
C18_CollectionExists ==
    \A d \in AllDocumentRows : \E c \in collections : c.id = d.collection_id

\* C18 witness: documents are stored in two collections and a write has
\* failed.
C18_Witness ==
    /\ Cardinality({d.collection_id : d \in AllDocumentRows}) = 2
    /\ \E p \in Procs :
        pc[p] = "done" /\ args[p].action = "write"
            /\ envelope[p].status = "error"

\* Caller p, inside a write, has looked its collection up and found no row.
ObservedNotFound(p) ==
    /\ args[p].action = "write"
    /\ StepOrder(pc[p]) >= 4
    /\ result[p] = << >>
    /\ envelope[p] \notin {Exit(1), Error("encode failed")}

\* Both callers observed "not found" for the same name and both writes
\* have returned.
BothNotFoundAndDone(p, q) ==
    /\ p # q
    /\ ObservedNotFound(p) /\ pc[p] = "done"
    /\ ObservedNotFound(q) /\ pc[q] = "done"
    /\ args[p].collection = args[q].collection

\* C19 as claimed: of two writes that both observed "not found" for one
\* name, one has its INSERT refused by the UNIQUE constraint, ends with an
\* error envelope and appends no document, and exactly one row carries the
\* name.
C19_LoserRefusedByUnique ==
    \A p, q \in Procs :
        BothNotFoundAndDone(p, q) =>
            /\ Cardinality(RowsNamed(args[p].collection)) = 1
            /\ \E x \in {p, q} : envelope[x] = UniqueError

\* C19 as amended: of two such writes at most one has its INSERT
\* committed; the other's INSERT is refused by the UNIQUE constraint or,
\* when the busy timeout ends while the first transaction is open, by the
\* write lock; that write ends with an error envelope and appends no
\* document, and at most one row carries the name (exactly one when an
\* INSERT was committed).
C19_LoserGetsError ==
    \A p, q \in Procs :
        BothNotFoundAndDone(p, q) =>
            LET losers == {x \in {p, q} : collection_id[x] = 0}
            IN  /\ losers # {}
                /\ \A x \in losers : envelope[x] \in {UniqueError, LockedError}
                /\ Cardinality(RowsNamed(args[p].collection))
                     = 2 - Cardinality(losers)
                /\ \A i \in DocumentsOf(args[p].collection) :
                       \E x \in {p, q} \ losers :
                           WriteOk(x) /\ envelope[x].id = documents[i].id

\* C19 witness: both writes observed "not found"; one was refused by the
\* UNIQUE constraint and the other stored its document.
C19_Witness ==
    \E p, q \in Procs :
        /\ BothNotFoundAndDone(p, q)
        /\ envelope[q] = UniqueError
        /\ WriteOk(p)

====
